---- MODULE Spec2Model ----
(***************************************************************************)
(* Model of the conversation state machine of app.py (AI Medical           *)
(* Consultant).  The script is executed top to bottom once per script run; *)
(* a run is started by a user event (file chosen or removed, button        *)
(* clicked, manual rerender) or by st.rerun().  One action of the model is *)
(* one script run.  The variables are the six st.session_state fields, the *)
(* value of the file_uploader widget, the pending st.rerun() request, and  *)
(* history variables that record what the run passed to and got from the   *)
(* two gateway functions.  A script run is one step: the run requested by  *)
(* st.rerun() is taken before any further user event, and a run is not     *)
(* interrupted by the user while a gateway call blocks.                    *)
(***************************************************************************)
EXTENDS Integers, Sequences, FiniteSets, TLC

VARIABLES
    conversation_started,    \* st.session_state.conversation_started
    triage_questions,        \* st.session_state.triage_questions
    current_question_index,  \* st.session_state.current_question_index
    conversation_history,    \* st.session_state.conversation_history
    final_analysis,          \* st.session_state.final_analysis (None or Some(text))
    image,                   \* st.session_state.image (None or Some(img))
    uploaded_file,           \* value of the st.file_uploader widget
    rerun_requested,         \* st.rerun() was called by the last script run
    response_str,            \* last value returned by get_gemini_json_response
    json_calls,              \* number of get_gemini_json_response calls so far
    json_image,              \* image argument of the last structured call
    text_calls,              \* number of get_gemini_text_response calls so far
    text_image,              \* image argument of the last narrative call
    final_prompt,            \* history_str of the last narrative call
    first_upload,            \* the first file the user ever uploaded
    last_run,                \* what the last script run did
    text_api,                \* outcome of generate_content in the last narrative call
    last_event,              \* what started the last script run
    run_calls,               \* the gateway calls made by the last script run
    action_calls             \* the gateway calls made since the last user event

session == <<conversation_started, triage_questions, current_question_index,
             conversation_history, final_analysis, image>>

vars == <<conversation_started, triage_questions, current_question_index,
          conversation_history, final_analysis, image, uploaded_file,
          rerun_requested, response_str, json_calls, json_image, text_calls,
          text_image, final_prompt, first_upload, last_run, text_api,
          last_event, run_calls, action_calls>>

-----------------------------------------------------------------------------
(* Bounds *)

MaxQuestions == 3
MaxTriageCalls == 2

-----------------------------------------------------------------------------
(* Python's None and a present value *)

None == <<>>
Some(x) == <<x>>

-----------------------------------------------------------------------------
(* Inputs: files, model replies, exceptions *)

Images == {"scan_a", "scan_b"}

QDuration == [question_text |-> "Duration?", options |-> <<"<1d", "1-3d">>]
QPainful == [question_text |-> "Painful?", options |-> <<"yes">>]
QNoOptions == [question_text |-> "Other?", options |-> <<>>]

QuestionPool == {QDuration, QPainful, QNoOptions}

QuestionLists == UNION {[1..k -> QuestionPool] : k \in 0..MaxQuestions}

\* A JSON document as json.loads sees it.
QuestionsDoc(qs) ==
    [syntax_ok |-> TRUE, is_object |-> TRUE, keys |-> {"questions"}, questions |-> qs]

ArrayDoc ==
    [syntax_ok |-> TRUE, is_object |-> FALSE, keys |-> {}, questions |-> <<>>]

NotJson ==
    [syntax_ok |-> FALSE, is_object |-> FALSE, keys |-> {}, questions |-> <<>>]

\* str(e) of an exception raised by generate_content; quoted: the message
\* contains a double quote.
ExceptionMessages == {[text |-> "503 unavailable", quoted |-> FALSE],
                      [text |-> "invalid key", quoted |-> TRUE]}

NoMessage == [text |-> "", quoted |-> FALSE]

\* A message with a double quote breaks the string literal of the sentinel.
BreaksJson(msg) == msg.quoted

\* {"error": "API communication failed: <e>"}
ErrorDoc(msg) ==
    [syntax_ok |-> ~BreaksJson(msg), is_object |-> TRUE, keys |-> {"error"},
     questions |-> <<>>]

ModelDocs == {QuestionsDoc(qs) : qs \in QuestionLists}
                 \cup {ArrayDoc, NotJson} \cup {ErrorDoc(m) : m \in ExceptionMessages}

\* A reply text is a sequence of chunks: the code-fence markers (three
\* backticks followed by json, three backticks) and JSON text.
FenceJson == [kind |-> "fence_json", doc |-> NotJson]
Fence == [kind |-> "fence", doc |-> NotJson]
Body(d) == [kind |-> "text", doc |-> d]

ModelTexts == {<<Body(d)>> : d \in ModelDocs}
                  \cup {<<FenceJson, Body(d), Fence>> : d \in ModelDocs}
                  \cup {<<FenceJson, Fence>>}

\* Outcomes of model.generate_content for the structured call.
JsonApiOutcomes == {[raised |-> FALSE, text |-> t, message |-> NoMessage] : t \in ModelTexts}
                       \cup {[raised |-> TRUE, text |-> <<>>, message |-> m] :
                                 m \in ExceptionMessages}

\* Outcomes of model.generate_content for the narrative call.
TextApiOutcomes == {[raised |-> FALSE, text |-> t, message |-> NoMessage] :
                        t \in {"## Integrated Observation", ""}}
                       \cup {[raised |-> TRUE, text |-> "", message |-> m] :
                                 m \in ExceptionMessages}

-----------------------------------------------------------------------------
(* Core API functions *)

IsFence(chunk) == chunk.kind \in {"fence_json", "fence"}

NotFence(chunk) == ~IsFence(chunk)

\* The reply text with both code-fence markers replaced by "", or the error
\* sentinel when generate_content raised.
get_gemini_json_response(api) ==
    IF api.raised THEN <<Body(ErrorDoc(api.message))>>
    ELSE SelectSeq(api.text, NotFence)

TextResponseBlankOnError(api) == IF api.raised THEN "" ELSE api.text

\* response.text, or the "Error: ..." string when generate_content raised.
get_gemini_text_response(api) ==
    IF api.raised THEN "Error: API communication failed. " \o api.message.text
    ELSE api.text

-----------------------------------------------------------------------------
(* Prompt engineering *)

RECURSIVE HistoryLines(_)
HistoryLines(history) ==
    IF history = <<>> THEN <<>>
    ELSE <<"Q: " \o Head(history)[1], "A: " \o Head(history)[2]>>
             \o HistoryLines(Tail(history))

\* The lines of history_str; the rest of the prompt is fixed text.
create_final_analysis_prompt(history) == HistoryLines(history)

-----------------------------------------------------------------------------
(* json.loads and the try/except of the start-triage handler *)

json_loads(s) == IF Len(s) = 1 THEN s[1].doc ELSE NotJson

JSONDecodeError(s) == ~json_loads(s).syntax_ok

DataGetDefault(data, key, default) == default

\* data.get(key, default)
DataGet(data, key, default) ==
    IF key \in data.keys THEN data.questions ELSE default

TriageOutcomeLenient(s) ==
    IF JSONDecodeError(s) THEN "commit"
    ELSE IF ~json_loads(s).is_object THEN "exception"
    ELSE "commit"

\* "error": JSONDecodeError caught, st.error shown; "exception": data.get on
\* a non-dict raises AttributeError, which is not caught; "commit": the four
\* assignments and st.rerun().
TriageOutcome(s) ==
    IF JSONDecodeError(s) THEN "error"
    ELSE IF ~json_loads(s).is_object THEN "exception"
    ELSE "commit"

-----------------------------------------------------------------------------
(* Conditions and assignments of the script *)

StoreImageAlways(img, file) == file

\* if st.session_state.image is None: st.session_state.image = image
StoreImage(img, file) == IF img = None THEN file ELSE img

StartButtonShownIgnoringFinal == ~conversation_started

StartButtonShownIgnoringStarted == final_analysis = None

\* not conversation_started and final_analysis is None
StartButtonShown == ~conversation_started /\ final_analysis = None

HasCurrentQuestionOffByOne == current_question_index < Len(triage_questions) - 1

\* current_question_index < len(triage_questions)
HasCurrentQuestion == current_question_index < Len(triage_questions)

ForgetAnswer(history, q_text, option) == history

PrependAnswer(history, q_text, option) == <<<<q_text, option>>>> \o history

\* conversation_history.append((q_text, option))
AppendAnswer(history, q_text, option) == Append(history, <<q_text, option>>)

SkipIndex(i) == i + 2

\* current_question_index += 1
NextIndex(i) == i + 1

StartedStaysTrue == TRUE

\* conversation_started = False in the else branch
StartedAfterAnalysis == FALSE

-----------------------------------------------------------------------------
(* Init: the session-state initialisation block on the first run *)

Init ==
    /\ conversation_started = FALSE
    /\ triage_questions = <<>>
    /\ current_question_index = 0
    /\ conversation_history = <<>>
    /\ final_analysis = None
    /\ image = None
    /\ uploaded_file = None
    /\ rerun_requested = FALSE
    /\ response_str = None
    /\ json_calls = 0
    /\ json_image = None
    /\ text_calls = 0
    /\ text_image = None
    /\ final_prompt = None
    /\ first_upload = None
    /\ last_run = "init"
    /\ text_api = None
    /\ last_event = "init"
    /\ run_calls = <<>>
    /\ action_calls = <<>>

-----------------------------------------------------------------------------
(* Parts of one script run *)

FinalAnalysisLost(img, api) ==
    /\ conversation_started' = StartedAfterAnalysis
    /\ final_prompt' = Some(create_final_analysis_prompt(conversation_history))
    /\ text_image' = img
    /\ text_calls' = text_calls + 1
    /\ text_api' = Some(api)
    /\ final_analysis' = final_analysis
    /\ rerun_requested' = TRUE
    /\ last_run' = "analysis"
    /\ run_calls' = <<"text">>
    /\ UNCHANGED <<triage_questions, current_question_index, conversation_history,
                   response_str, json_calls, json_image>>

\* The else branch: final analysis.  img is st.session_state.image after
\* the upload block of this run.
FinalAnalysis(img, api) ==
    /\ conversation_started' = StartedAfterAnalysis
    /\ final_prompt' = Some(create_final_analysis_prompt(conversation_history))
    /\ text_image' = img
    /\ text_calls' = text_calls + 1
    /\ text_api' = Some(api)
    /\ final_analysis' = Some(get_gemini_text_response(api))
    /\ rerun_requested' = TRUE
    /\ last_run' = "analysis"
    /\ run_calls' = <<"text">>
    /\ UNCHANGED <<triage_questions, current_question_index, conversation_history,
                   response_str, json_calls, json_image>>

\* A run in which no button reports a click: upload block, then the
\* conversation block.
RunWithoutClick(file) ==
    /\ uploaded_file' = file
    /\ IF file = None
       THEN /\ last_run' = "no_file"
            /\ rerun_requested' = FALSE
            /\ run_calls' = <<>>
            /\ UNCHANGED <<session, response_str, json_calls, json_image,
                           text_calls, text_image, final_prompt, text_api>>
       ELSE /\ image' = StoreImage(image, file)
            /\ IF conversation_started /\ ~HasCurrentQuestion
               THEN \E api \in TextApiOutcomes : FinalAnalysis(StoreImage(image, file), api)
               ELSE /\ last_run' = "render"
                    /\ rerun_requested' = FALSE
                    /\ run_calls' = <<>>
                    /\ UNCHANGED <<conversation_started, triage_questions,
                                   current_question_index, conversation_history,
                                   final_analysis, response_str, json_calls,
                                   json_image, text_calls, text_image, final_prompt,
                                   text_api>>

-----------------------------------------------------------------------------
(* Script runs *)

\* The user chooses a file in the uploader.
Upload ==
    /\ ~rerun_requested
    /\ \E f \in Images :
          /\ uploaded_file # Some(f)
          /\ first_upload' = IF first_upload = None THEN Some(f) ELSE first_upload
          /\ RunWithoutClick(Some(f))
    /\ last_event' = "upload"
    /\ action_calls' = run_calls'

\* The user removes the file from the uploader.
RemoveFile ==
    /\ ~rerun_requested
    /\ uploaded_file # None
    /\ RunWithoutClick(None)
    /\ last_event' = "remove"
    /\ action_calls' = run_calls'
    /\ UNCHANGED first_upload

\* The user reruns the page without touching a widget.
Rerender ==
    /\ ~rerun_requested
    /\ RunWithoutClick(uploaded_file)
    /\ last_event' = "rerender"
    /\ action_calls' = run_calls'
    /\ UNCHANGED first_upload

\* The run requested by st.rerun().
Rerun ==
    /\ rerun_requested
    /\ RunWithoutClick(uploaded_file)
    /\ last_event' = "rerun"
    /\ action_calls' = action_calls \o run_calls'
    /\ UNCHANGED first_upload

\* The user clicks "2. Start Triage Conversation".
ClickStart ==
    /\ ~rerun_requested
    /\ uploaded_file # None
    /\ StartButtonShown
    /\ json_calls < MaxTriageCalls
    /\ \E api \in JsonApiOutcomes :
          LET img == StoreImage(image, uploaded_file)
              s == get_gemini_json_response(api)
              data == json_loads(s)
              outcome == TriageOutcome(s)
          IN /\ image' = img
             /\ response_str' = Some(s)
             /\ json_calls' = json_calls + 1
             /\ json_image' = img
             /\ IF outcome = "commit"
                THEN /\ triage_questions' = DataGet(data, "questions", <<>>)
                     /\ conversation_started' = TRUE
                     /\ current_question_index' = 0
                     /\ conversation_history' = <<>>
                     /\ rerun_requested' = TRUE
                     /\ last_run' = "triage_started"
                ELSE /\ UNCHANGED <<triage_questions, conversation_started,
                                    current_question_index, conversation_history>>
                     /\ rerun_requested' = FALSE
                     /\ last_run' = IF outcome = "error" THEN "triage_error"
                                    ELSE "exception"
    /\ last_event' = "start"
    /\ run_calls' = <<"json">>
    /\ action_calls' = <<"json">>
    /\ UNCHANGED <<final_analysis, uploaded_file, text_calls, text_image,
                   final_prompt, first_upload, text_api>>

\* The user clicks one of the option buttons of the current question.
SelectOption ==
    /\ ~rerun_requested
    /\ uploaded_file # None
    /\ conversation_started
    /\ HasCurrentQuestion
    /\ LET current_q == triage_questions[current_question_index + 1]
           q_text == current_q.question_text
           q_options == current_q.options
       IN \E i \in 1..Len(q_options) :
             /\ conversation_history' =
                    AppendAnswer(conversation_history, q_text, q_options[i])
             /\ current_question_index' = NextIndex(current_question_index)
    /\ image' = StoreImage(image, uploaded_file)
    /\ rerun_requested' = TRUE
    /\ last_run' = "answer"
    /\ last_event' = "option"
    /\ run_calls' = <<>>
    /\ action_calls' = <<>>
    /\ UNCHANGED <<conversation_started, triage_questions, final_analysis,
                   uploaded_file, response_str, json_calls, json_image,
                   text_calls, text_image, final_prompt, first_upload, text_api>>

Next ==
    \/ Upload
    \/ RemoveFile
    \/ Rerender
    \/ Rerun
    \/ ClickStart
    \/ SelectOption

Spec == Init /\ [][Next]_vars

-----------------------------------------------------------------------------
(* Properties *)

IsPrefix(a, b) == Len(a) <= Len(b) /\ SubSeq(b, 1, Len(a)) = a

Range(f) == {f[i] : i \in DOMAIN f}

\* The run just taken made a structured gateway call.
TriageCallStep == json_calls' = json_calls + 1

\* The run just taken made a narrative gateway call.
NarrativeCallStep == text_calls' = text_calls + 1

\* conversation_started and every question answered, analysis not yet made.
AnalysisPending == conversation_started /\ ~HasCurrentQuestion

\* C1: in every reachable session state the length of conversation_history
\* equals current_question_index.
C1_HistoryLengthIsIndex == Len(conversation_history) = current_question_index

C1_Witness ==
    /\ Len(conversation_history) = 2
    /\ last_run = "answer"
    /\ json_calls = 2

\* C2: in every reachable session state current_question_index lies between
\* 0 and len(triage_questions) inclusive.
C2_IndexInRange ==
    current_question_index \in 0..Len(triage_questions)

C2_Witness ==
    /\ last_run = "answer"
    /\ Len(triage_questions) >= 2
    /\ current_question_index = Len(triage_questions)

\* C3: the narrative gateway is called at most once in a session; a run that
\* starts with the conversation started and every question answered makes
\* exactly one narrative call; such a state always has its run requested and
\* no call made yet; and the final analysis is present exactly when the one
\* call has been made.
C3_AnalysisExactlyOnce ==
    /\ [](/\ text_calls <= 1
          /\ (final_analysis # None) <=> (text_calls = 1)
          /\ AnalysisPending => (rerun_requested /\ text_calls = 0 /\ uploaded_file # None))
    /\ [][/\ AnalysisPending => NarrativeCallStep
          /\ (text_calls' # text_calls) => (AnalysisPending /\ NarrativeCallStep)]_vars

C3_Witness ==
    /\ text_calls = 1
    /\ last_run = "render"
    /\ Len(triage_questions) = 2
    /\ json_calls = 2

\* C4: a start-triage run whose reply is not valid JSON changes no session
\* field, shows the error, and leaves the session awaiting the triage start
\* with the start button still shown.
C4_InvalidJsonChangesNothing ==
    [][(TriageCallStep /\ JSONDecodeError(response_str'[1])) =>
          /\ UNCHANGED session
          /\ last_run' = "triage_error"
          /\ image' # None
          /\ uploaded_file' # None
          /\ StartButtonShown'
          /\ ~rerun_requested']_vars

C4_Witness ==
    /\ last_run = "triage_error"
    /\ response_str = Some(<<>>)
    /\ json_calls = 1

\* C5: a reply that parses as a JSON object without a "questions" key leaves
\* the session awaiting the triage start: conversation_started stays false,
\* triage_questions is untouched, the error is shown, and no narrative call
\* follows.
C5_MissingQuestionsKeyIsAnError ==
    [][(/\ TriageCallStep
        /\ ~JSONDecodeError(response_str'[1])
        /\ json_loads(response_str'[1]).is_object
        /\ "questions" \notin json_loads(response_str'[1]).keys) =>
          /\ conversation_started' = FALSE
          /\ triage_questions' = triage_questions
          /\ last_run' = "triage_error"
          /\ ~rerun_requested']_vars

\* C6: a start-triage run whose reply is a JSON object with a "questions"
\* list sets triage_questions to that list, conversation_started to true,
\* current_question_index to 0 and conversation_history to empty, so that the
\* first question is the current one; when the list is empty the next run
\* calls the narrative gateway with an empty transcript and no answer
\* recorded.
C6_ValidReplyStartsTriage ==
    [][/\ (/\ TriageCallStep
           /\ ~JSONDecodeError(response_str'[1])
           /\ json_loads(response_str'[1]).is_object
           /\ "questions" \in json_loads(response_str'[1]).keys) =>
             /\ ~conversation_started /\ final_analysis = None /\ image' # None
             /\ Len(json_loads(response_str'[1]).questions) <= MaxQuestions
             /\ triage_questions' = json_loads(response_str'[1]).questions
             /\ conversation_started' = TRUE
             /\ current_question_index' = 0
             /\ conversation_history' = <<>>
             /\ final_analysis' = None
             /\ (triage_questions' # <<>> => HasCurrentQuestion')
             /\ (triage_questions' = <<>> => (AnalysisPending' /\ rerun_requested'))
       /\ (conversation_started /\ triage_questions = <<>>) =>
             /\ NarrativeCallStep
             /\ conversation_history = <<>>
             /\ final_prompt' = Some(<<>>)]_vars

C6_Witness ==
    /\ response_str = Some(<<Body(QuestionsDoc(<<>>))>>)
    /\ triage_questions = <<>>
    /\ final_prompt = Some(<<>>)
    /\ text_calls = 1

\* The transcript lines of the answered questions, in question order.
RECURSIVE ExpectedLines(_, _)
ExpectedLines(questions, history) ==
    IF history = <<>> THEN <<>>
    ELSE <<"Q: " \o Head(questions).question_text, "A: " \o Head(history)[2]>>
             \o ExpectedLines(Tail(questions), Tail(history))

\* C7: a run changes the history or the index only by appending one pair
\* (text of the current question, one of its options) and adding one to the
\* index; every recorded pair j holds the text of question j and one of its
\* options; and the transcript of the narrative call is the pairs of all
\* questions in question order.
C7_AnswersFollowQuestions ==
    /\ [](/\ Len(conversation_history) <= Len(triage_questions)
          /\ \A j \in 1..Len(conversation_history) :
                /\ conversation_history[j][1] = triage_questions[j].question_text
                /\ conversation_history[j][2] \in Range(triage_questions[j].options)
          /\ final_prompt # None =>
                /\ Len(conversation_history) = Len(triage_questions)
                /\ Len(final_prompt[1]) = 2 * Len(triage_questions)
                /\ final_prompt[1] = ExpectedLines(triage_questions, conversation_history))
    /\ [][(\/ conversation_history' # conversation_history
           \/ current_question_index' # current_question_index) =>
             /\ conversation_started /\ HasCurrentQuestion
             /\ current_question_index' = current_question_index + 1
             /\ \E o \in Range(triage_questions[current_question_index + 1].options) :
                   conversation_history' =
                       Append(conversation_history,
                              <<triage_questions[current_question_index + 1].question_text, o>>)]_vars

C7_Witness ==
    /\ Len(conversation_history) = 3
    /\ conversation_history[1][1] # conversation_history[2][1]
    /\ final_prompt # None

\* C8: across every step current_question_index never decreases and
\* conversation_history only grows by appending.
C8_NoWayBack ==
    [][/\ current_question_index' >= current_question_index
       /\ IsPrefix(conversation_history, conversation_history')]_vars

C8_Witness ==
    /\ current_question_index = 2
    /\ last_run = "render"
    /\ conversation_started
    /\ uploaded_file # image

\* C9: once final_analysis is set the start-triage action is never enabled
\* and the button never shown again, and no run changes final_analysis,
\* conversation_history, current_question_index or triage_questions.
C9_CompleteIsTerminal ==
    /\ [](final_analysis # None => (~StartButtonShown /\ ~ENABLED ClickStart))
    /\ [][final_analysis # None =>
             UNCHANGED <<final_analysis, conversation_history,
                         current_question_index, triage_questions>>]_vars

C9_Witness ==
    /\ final_analysis # None
    /\ last_run = "render"
    /\ uploaded_file # None
    /\ uploaded_file # image
    /\ json_calls < MaxTriageCalls

\* C10: the stored image is always the first uploaded file; a stored image
\* is never replaced; a file is stored when none is; and both gateway calls
\* are passed the first uploaded file.
C10_FirstUploadWins ==
    /\ [](/\ image # None => image = first_upload
          /\ first_upload # None => image = first_upload
          /\ json_calls > 0 => (json_image # None /\ json_image = first_upload)
          /\ text_calls > 0 => (text_image # None /\ text_image = first_upload))
    /\ [][/\ image # None => image' = image
          /\ (image = None /\ uploaded_file' # None) => image' = uploaded_file']_vars

C10_Witness ==
    /\ text_calls = 1
    /\ json_image = text_image
    /\ uploaded_file # None
    /\ uploaded_file # text_image

\* C11: when generate_content raises in the narrative call the run ends as
\* an analysis run, not with a fault: the "Error: ..." string with the
\* message is stored as final_analysis, conversation_started is cleared, the
\* questions, index and history are left alone, and afterwards the start
\* button is never shown and no second narrative call is made.
C11_NarrativeFailureIsStored ==
    /\ []((text_api # None /\ text_api[1].raised) =>
             /\ final_analysis =
                    Some("Error: API communication failed. " \o text_api[1].message.text)
             /\ ~conversation_started
             /\ text_calls = 1
             /\ ~StartButtonShown
             /\ ~ENABLED ClickStart)
    /\ [][(NarrativeCallStep /\ text_api'[1].raised) =>
             /\ last_run' = "analysis"
             /\ rerun_requested'
             /\ conversation_started' = FALSE
             /\ final_analysis' # None
             /\ UNCHANGED <<triage_questions, current_question_index,
                            conversation_history, image>>]_vars

C11_Witness ==
    /\ text_api # None
    /\ text_api[1].raised
    /\ last_run = "render"
    /\ Len(conversation_history) = 2
    /\ final_analysis = Some("Error: API communication failed. 503 unavailable")

\* A script run that carries no user action: the run requested by st.rerun()
\* or a rerender of the page.
RunWithoutUserAction == Rerun \/ Rerender

\* C12 as stated: a run that carries no new user action leaves
\* conversation_history, current_question_index and final_analysis unchanged.
C12_RerenderChangesNothing ==
    [][RunWithoutUserAction =>
          UNCHANGED <<conversation_history, current_question_index,
                      final_analysis>>]_vars

\* C12 amended: a run that carries no new user action leaves
\* conversation_history and current_question_index unchanged, and leaves
\* final_analysis unchanged unless the conversation is started with every
\* question answered, in which case the run sets final_analysis, once.
C12_RerenderChangesOnlyPendingAnalysis ==
    [][RunWithoutUserAction =>
          /\ UNCHANGED <<conversation_history, current_question_index>>
          /\ ~AnalysisPending => UNCHANGED final_analysis
          /\ AnalysisPending => (final_analysis = None /\ final_analysis' # None)]_vars

C12_Witness ==
    /\ last_event = "rerender"
    /\ last_run = "render"
    /\ conversation_started
    /\ current_question_index = 1

\* C13 as stated: the runs that follow one user action, up to the next wait
\* for input, make at most one gateway call.
C13_OneCallPerUserAction == Len(action_calls) <= 1

\* C13 amended: every script run makes at most one gateway call, and the
\* runs that follow one user action make at most one call, except after a
\* start-triage click that leaves triage_questions empty, where the
\* structured call is followed in the requested rerun by the narrative call.
C13_OneCallPerRun ==
    /\ [](/\ Len(run_calls) <= 1
          /\ Len(action_calls) <= 2
          /\ Len(action_calls) = 2 =>
                /\ action_calls = <<"json", "text">>
                /\ triage_questions = <<>>
                /\ conversation_history = <<>>)
    /\ [][Len(run_calls') =
              (json_calls' - json_calls) + (text_calls' - text_calls)]_vars

C13_Witness ==
    /\ action_calls = <<"json", "text">>
    /\ ~rerun_requested
    /\ last_run = "render"

\* C14: triage_questions is modified only by a successful start-triage run
\* taken from a session that never started a triage; once a triage has
\* started (the conversation is started or the final analysis is present)
\* no run changes it.
C14_QuestionsImmutable ==
    /\ []((~conversation_started /\ final_analysis = None) => triage_questions = <<>>)
    /\ [][/\ (conversation_started \/ final_analysis # None) =>
                triage_questions' = triage_questions
          /\ triage_questions' # triage_questions =>
                /\ TriageCallStep
                /\ last_run' = "triage_started"
                /\ text_calls = 0]_vars

C14_Witness ==
    /\ Len(triage_questions) = 2
    /\ final_analysis # None
    /\ last_event = "upload"
    /\ uploaded_file # image
    /\ json_calls < MaxTriageCalls

\* The phases of the session.
Idle == image = None

AwaitingTriageStart == image # None /\ ~conversation_started /\ final_analysis = None

AskingQuestion == conversation_started /\ HasCurrentQuestion

Complete == final_analysis # None

Phases == <<Idle, AwaitingTriageStart, AskingQuestion, AnalysisPending, Complete>>

\* C15: in every reachable state exactly one phase holds and
\* conversation_started implies that final_analysis is None and an image is
\* stored; the narrative gateway is only called from a state with
\* conversation_started true and current_question_index equal to
\* len(triage_questions).
C15_PhasesExclusive ==
    /\ [](/\ conversation_started => (final_analysis = None /\ image # None)
          /\ Cardinality({i \in 1..Len(Phases) : Phases[i]}) = 1)
    /\ [][text_calls' # text_calls =>
             /\ conversation_started
             /\ current_question_index = Len(triage_questions)
             /\ final_analysis = None
             /\ image' # None]_vars

C15_Witness ==
    /\ last_run = "analysis"
    /\ Len(conversation_history) = 1
    /\ Complete
    /\ ~conversation_started

-----------------------------------------------------------------------------
(* Progress *)

\* The run requested by st.rerun() is taken, and a user who is offered an
\* option button keeps selecting one.
FairSpec == Spec /\ WF_vars(Rerun) /\ WF_vars(SelectOption)

\* Every triage question has at least one option.
AllQuestionsHaveOptions ==
    \A j \in 1..Len(triage_questions) : Len(triage_questions[j].options) >= 1

\* C16: with the uploaded file kept in place from some point on, a started
\* triage whose questions all have an option eventually reaches Complete
\* through option selections and requested reruns alone; in that case a
\* started conversation with the file in place always has a requested rerun
\* or an option button to take; and at Complete the history holds exactly
\* one answer per question.
C16_TriageCompletes ==
    /\ (<>[](uploaded_file # None)) =>
           ((conversation_started /\ AllQuestionsHaveOptions) ~> Complete)
    /\ []((conversation_started /\ AllQuestionsHaveOptions /\ uploaded_file # None) =>
             (ENABLED Rerun \/ ENABLED SelectOption))
    /\ [](Complete =>
             /\ Len(conversation_history) = Len(triage_questions)
             /\ current_question_index = Len(triage_questions))

C16_Witness ==
    /\ Complete
    /\ Len(triage_questions) = 3
    /\ AllQuestionsHaveOptions
    /\ Len(conversation_history) = 3
    /\ json_calls = 1
    /\ last_event = "rerun"

====
